---------------------------- MODULE Spec2Model ----------------------------
(***************************************************************************)
(* A model of the Oracle MCP server's query-safety and session layer:      *)
(*   - the SQL classifier and danger assessor (query-executor.ts),         *)
(*   - the mode/danger gates of the executor entry points,                 *)
(*   - the connection manager's session cache (connection-manager.ts),     *)
(*   - the tool calls as asynchronous handlers that suspend at every       *)
(*     driver operation (ping, connect, execute, commit, rollback, close). *)
(*                                                                         *)
(* SQL text is modelled as a sequence of characters; the inputs are built  *)
(* by concatenating fragments of a small vocabulary, so that the string    *)
(* operations of the source (trim, toUpperCase, startsWith, includes and   *)
(* the regular expressions) are computed character by character.           *)
(***************************************************************************)
EXTENDS Integers, Sequences, FiniteSets, TLC

(***************************************************************************)
(* Characters and the string primitives used by the source.                *)
(***************************************************************************)
LowerL == <<"a","b","c","d","e","f","g","h","i","j","k","l","m",
            "n","o","p","q","r","s","t","u","v","w","x","y","z">>
UpperL == <<"A","B","C","D","E","F","G","H","I","J","K","L","M",
            "N","O","P","Q","R","S","T","U","V","W","X","Y","Z">>
LowerSet == {LowerL[i] : i \in 1..26}
UpperSet == {UpperL[i] : i \in 1..26}
DigitSet == {"0","1","2","3","4","5","6","7","8","9"}

\* String.prototype.toUpperCase on one ASCII character.
toUpperChar(c) ==
    IF c \in LowerSet THEN UpperL[CHOOSE i \in 1..26 : LowerL[i] = c] ELSE c

toUpperCase(s) == [i \in 1..Len(s) |-> toUpperChar(s[i])]

\* \s of the regular expressions and the white space String.prototype.trim removes.
IsSpace(c) == c \in {" ", "\n", "\t"}

\* \w of the regular expressions.
IsWordChar(c) == c \in LowerSet \cup UpperSet \cup DigitSet \cup {"_"}

trim(s) ==
    LET keep == {i \in 1..Len(s) : ~IsSpace(s[i])}
    IN  IF keep = {} THEN <<>>
        ELSE LET lo == CHOOSE i \in keep : \A j \in keep : i <= j
                 hi == CHOOSE i \in keep : \A j \in keep : i >= j
             IN  SubSeq(s, lo, hi)

startsWith(s, p) == Len(s) >= Len(p) /\ SubSeq(s, 1, Len(p)) = p

\* p occurs in s at position i.
MatchAt(s, i, p) == i >= 1 /\ i + Len(p) - 1 <= Len(s) /\ SubSeq(s, i, i + Len(p) - 1) = p

includes(s, p) == \E i \in 1..(Len(s) + 1) : MatchAt(s, i, p)

\* \b between s[i-1] and s[i].
IsW(s, k) == k \in 1..Len(s) /\ IsWordChar(s[k])
wordBoundary(s, i) == IsW(s, i - 1) # IsW(s, i)

\* The positions at which a match of \s+ that starts at i can end (exclusive).
AfterSpaces(s, i) == {j \in (i + 1)..(Len(s) + 1) : \A k \in i..(j - 1) : IsSpace(s[k])}

(***************************************************************************)
(* Keywords, as character sequences.                                       *)
(***************************************************************************)
KW_SELECT == <<"S","E","L","E","C","T">>
KW_INSERT == <<"I","N","S","E","R","T">>
KW_UPDATE == <<"U","P","D","A","T","E">>
KW_DELETE == <<"D","E","L","E","T","E">>
KW_CREATE == <<"C","R","E","A","T","E">>
KW_ALTER == <<"A","L","T","E","R">>
KW_DROP == <<"D","R","O","P">>
KW_TRUNCATE == <<"T","R","U","N","C","A","T","E">>
KW_GRANT == <<"G","R","A","N","T">>
KW_REVOKE == <<"R","E","V","O","K","E">>
KW_BEGIN == <<"B","E","G","I","N">>
KW_DECLARE == <<"D","E","C","L","A","R","E">>
KW_CREATE_OR_REPLACE == <<"C","R","E","A","T","E"," ","O","R"," ","R","E","P","L","A","C","E">>
KW_WHERE == <<"W","H","E","R","E">>
KW_TABLE == <<"T","A","B","L","E">>
KW_INDEX == <<"I","N","D","E","X">>
KW_VIEW == <<"V","I","E","W">>
KW_SEQUENCE == <<"S","E","Q","U","E","N","C","E">>
KW_PROCEDURE == <<"P","R","O","C","E","D","U","R","E">>
KW_FUNCTION == <<"F","U","N","C","T","I","O","N">>
KW_PACKAGE == <<"P","A","C","K","A","G","E">>
KW_TRIGGER == <<"T","R","I","G","G","E","R">>
KW_SYNONYM == <<"S","Y","N","O","N","Y","M">>
KW_DATABASE == <<"D","A","T","A","B","A","S","E">>
KW_USER == <<"U","S","E","R">>
KW_TABLESPACE == <<"T","A","B","L","E","S","P","A","C","E">>
KW_SYSTEM == <<"S","Y","S","T","E","M">>
KW_TYPE == <<"T","Y","P","E">>
KW_OR == <<"O","R">>
KW_REPLACE == <<"R","E","P","L","A","C","E">>

(***************************************************************************)
(* DANGEROUS_PATTERNS.  The /i flag is modelled by matching the upper-     *)
(* cased text, which is the same for ASCII text.                           *)
(***************************************************************************)
DropObjects == {KW_TABLE, KW_INDEX, KW_VIEW, KW_SEQUENCE, KW_PROCEDURE, KW_FUNCTION,
                KW_PACKAGE, KW_TRIGGER, KW_SYNONYM, KW_DATABASE, KW_USER, KW_TABLESPACE}

\* /\b<first>\s+(<alt1>|<alt2>|...)\b/ matched at position i of u.
TwoWordsAt(u, i, first, alts) ==
    /\ wordBoundary(u, i)
    /\ MatchAt(u, i, first)
    /\ \E j \in AfterSpaces(u, i + Len(first)) :
          \E kw \in alts : MatchAt(u, j, kw) /\ wordBoundary(u, j + Len(kw))

\* /\bDROP\s+(TABLE|INDEX|...|TABLESPACE)\b/i.test(sql)
DANGEROUS_PATTERNS_drop(sql) ==
    LET u == toUpperCase(sql)
    IN  \E i \in 1..Len(u) : TwoWordsAt(u, i, KW_DROP, DropObjects)

\* /\bTRUNCATE\s+TABLE\b/i.test(sql)
DANGEROUS_PATTERNS_truncate(sql) ==
    LET u == toUpperCase(sql)
    IN  \E i \in 1..Len(u) : TwoWordsAt(u, i, KW_TRUNCATE, {KW_TABLE})

\* /\bALTER\s+SYSTEM\b/i.test(sql)
DANGEROUS_PATTERNS_alterSystem(sql) ==
    LET u == toUpperCase(sql)
    IN  \E i \in 1..Len(u) : TwoWordsAt(u, i, KW_ALTER, {KW_SYSTEM})

(***************************************************************************)
(* detectQueryType                                                         *)
(***************************************************************************)
QueryType == {"select", "insert", "update", "delete", "ddl", "plsql", "other"}

\* detectQueryType as it would be with the PLSQL rule ahead of the DDL rule.
detectQueryType_plsqlFirst(sql) ==
    LET sqlStripped == toUpperCase(trim(sql))
    IN  IF startsWith(sqlStripped, KW_SELECT) THEN "select"
        ELSE IF startsWith(sqlStripped, KW_INSERT) THEN "insert"
        ELSE IF startsWith(sqlStripped, KW_UPDATE) THEN "update"
        ELSE IF startsWith(sqlStripped, KW_DELETE) THEN "delete"
        ELSE IF \/ \E kw \in {KW_BEGIN, KW_DECLARE} : startsWith(sqlStripped, kw)
                \/ includes(sqlStripped, KW_CREATE_OR_REPLACE) THEN "plsql"
        ELSE IF \E kw \in {KW_CREATE, KW_ALTER, KW_DROP, KW_TRUNCATE, KW_GRANT, KW_REVOKE} :
                   startsWith(sqlStripped, kw) THEN "ddl"
        ELSE "other"

detectQueryType(sql) ==
    LET sqlStripped == toUpperCase(trim(sql))
    IN  IF startsWith(sqlStripped, KW_SELECT) THEN "select"
        ELSE IF startsWith(sqlStripped, KW_INSERT) THEN "insert"
        ELSE IF startsWith(sqlStripped, KW_UPDATE) THEN "update"
        ELSE IF startsWith(sqlStripped, KW_DELETE) THEN "delete"
        ELSE IF \E kw \in {KW_CREATE, KW_ALTER, KW_DROP, KW_TRUNCATE, KW_GRANT, KW_REVOKE} :
                   startsWith(sqlStripped, kw) THEN "ddl"
        ELSE IF \/ \E kw \in {KW_BEGIN, KW_DECLARE} : startsWith(sqlStripped, kw)
                \/ includes(sqlStripped, KW_CREATE_OR_REPLACE) THEN "plsql"
        ELSE "other"

(***************************************************************************)
(* assessDangerLevel.  A warning is modelled by the name of the rule that  *)
(* pushes it.                                                              *)
(***************************************************************************)
DangerLevel == {"safe", "moderate", "high", "critical"}

\* assessDangerLevel as it would be with the DDL rule ahead of the patterns.
assessDangerLevel_ddlFirst(sql, queryType) ==
    IF queryType = "select" THEN [level |-> "safe", warnings |-> <<>>]
    ELSE IF queryType = "ddl"
        THEN [level |-> "high", warnings |-> <<"DDL statement">>]
    ELSE IF DANGEROUS_PATTERNS_drop(sql)
        THEN [level |-> "critical", warnings |-> <<"DROP statement detected">>]
    ELSE IF DANGEROUS_PATTERNS_truncate(sql)
        THEN [level |-> "critical", warnings |-> <<"TRUNCATE statement detected">>]
    ELSE IF DANGEROUS_PATTERNS_alterSystem(sql)
        THEN [level |-> "critical", warnings |-> <<"ALTER SYSTEM detected">>]
    ELSE IF queryType = "delete" /\ ~includes(toUpperCase(sql), KW_WHERE)
        THEN [level |-> "high", warnings |-> <<"DELETE without WHERE clause">>]
    ELSE IF queryType = "update" /\ ~includes(toUpperCase(sql), KW_WHERE)
        THEN [level |-> "high", warnings |-> <<"UPDATE without WHERE clause">>]
    ELSE IF queryType \in {"insert", "update", "delete"}
        THEN [level |-> "moderate", warnings |-> <<>>]
    ELSE [level |-> "safe", warnings |-> <<>>]

\* assessDangerLevel as it would be if WHERE were looked for as a word of its own.
assessDangerLevel_whereAsWord(sql, queryType) ==
    LET u == toUpperCase(sql)
        where == \E i \in 1..Len(u) : wordBoundary(u, i) /\ MatchAt(u, i, KW_WHERE)
    IN  IF queryType = "select" THEN [level |-> "safe", warnings |-> <<>>]
        ELSE IF DANGEROUS_PATTERNS_drop(sql)
            THEN [level |-> "critical", warnings |-> <<"DROP statement detected">>]
        ELSE IF DANGEROUS_PATTERNS_truncate(sql)
            THEN [level |-> "critical", warnings |-> <<"TRUNCATE statement detected">>]
        ELSE IF DANGEROUS_PATTERNS_alterSystem(sql)
            THEN [level |-> "critical", warnings |-> <<"ALTER SYSTEM detected">>]
        ELSE IF queryType = "delete" /\ ~where
            THEN [level |-> "high", warnings |-> <<"DELETE without WHERE clause">>]
        ELSE IF queryType = "update" /\ ~where
            THEN [level |-> "high", warnings |-> <<"UPDATE without WHERE clause">>]
        ELSE IF queryType = "ddl"
            THEN [level |-> "high", warnings |-> <<"DDL statement">>]
        ELSE IF queryType \in {"insert", "update", "delete"}
            THEN [level |-> "moderate", warnings |-> <<>>]
        ELSE [level |-> "safe", warnings |-> <<>>]

assessDangerLevel(sql, queryType) ==
    IF queryType = "select" THEN [level |-> "safe", warnings |-> <<>>]
    ELSE IF DANGEROUS_PATTERNS_drop(sql)
        THEN [level |-> "critical", warnings |-> <<"DROP statement detected">>]
    ELSE IF DANGEROUS_PATTERNS_truncate(sql)
        THEN [level |-> "critical", warnings |-> <<"TRUNCATE statement detected">>]
    ELSE IF DANGEROUS_PATTERNS_alterSystem(sql)
        THEN [level |-> "critical", warnings |-> <<"ALTER SYSTEM detected">>]
    ELSE IF queryType = "delete" /\ ~includes(toUpperCase(sql), KW_WHERE)
        THEN [level |-> "high", warnings |-> <<"DELETE without WHERE clause">>]
    ELSE IF queryType = "update" /\ ~includes(toUpperCase(sql), KW_WHERE)
        THEN [level |-> "high", warnings |-> <<"UPDATE without WHERE clause">>]
    ELSE IF queryType = "ddl"
        THEN [level |-> "high", warnings |-> <<"DDL statement">>]
    ELSE IF queryType \in {"insert", "update", "delete"}
        THEN [level |-> "moderate", warnings |-> <<>>]
    ELSE [level |-> "safe", warnings |-> <<>>]


(***************************************************************************)
(* The exception pattern of executePlsql:                                  *)
(* /\bCREATE\s+(OR\s+REPLACE\s+)?(PROCEDURE|FUNCTION|PACKAGE|TRIGGER|TYPE|VIEW)\b/i *)
(***************************************************************************)
CreatableObjects == {KW_PROCEDURE, KW_FUNCTION, KW_PACKAGE, KW_TRIGGER, KW_TYPE, KW_VIEW}

ObjectAt(u, j) == \E kw \in CreatableObjects : MatchAt(u, j, kw) /\ wordBoundary(u, j + Len(kw))

allowedCreate(plsql) ==
    LET u == toUpperCase(plsql)
    IN  \E i \in 1..Len(u) :
          /\ wordBoundary(u, i)
          /\ MatchAt(u, i, KW_CREATE)
          /\ \E j \in AfterSpaces(u, i + Len(KW_CREATE)) :
                \/ ObjectAt(u, j)
                \/ /\ MatchAt(u, j, KW_OR)
                   /\ \E k \in AfterSpaces(u, j + Len(KW_OR)) :
                         /\ MatchAt(u, k, KW_REPLACE)
                         /\ \E m \in AfterSpaces(u, k + Len(KW_REPLACE)) : ObjectAt(u, m)

(***************************************************************************)
(* Input texts: a text is a sequence of fragments, and stands for the      *)
(* concatenation of their characters.                                      *)
(***************************************************************************)
Frags == {"SELECT 1", " select 2", "INSERT INTO t", "UPDATE t SET a=1", "DELETE FROM t",
          " WHERE a=1", "DROP TABLE t", "TRUNCATE TABLE t", "ALTER SYSTEM",
          "CREATE OR REPLACE ", "CREATE ", "PROCEDURE p AS ", "VIEW v AS ",
          "BEGIN ", "NULL; END;", " ", " -- ", "x", "nowhere", "FUNCTION f "}

FragChars(f) ==
    CASE f = "SELECT 1" -> <<"S","E","L","E","C","T"," ","1">>
      [] f = " select 2" -> <<" ","s","e","l","e","c","t"," ","2">>
      [] f = "INSERT INTO t" -> <<"I","N","S","E","R","T"," ","I","N","T","O"," ","t">>
      [] f = "UPDATE t SET a=1" -> <<"U","P","D","A","T","E"," ","t"," ","S","E","T"," ","a","=","1">>
      [] f = "DELETE FROM t" -> <<"D","E","L","E","T","E"," ","F","R","O","M"," ","t">>
      [] f = " WHERE a=1" -> <<" ","W","H","E","R","E"," ","a","=","1">>
      [] f = "DROP TABLE t" -> <<"D","R","O","P"," ","T","A","B","L","E"," ","t">>
      [] f = "TRUNCATE TABLE t" -> <<"T","R","U","N","C","A","T","E"," ","T","A","B","L","E"," ","t">>
      [] f = "ALTER SYSTEM" -> <<"A","L","T","E","R"," ","S","Y","S","T","E","M">>
      [] f = "CREATE OR REPLACE " -> <<"C","R","E","A","T","E"," ","O","R"," ","R","E","P","L","A","C","E"," ">>
      [] f = "CREATE " -> <<"C","R","E","A","T","E"," ">>
      [] f = "PROCEDURE p AS " -> <<"P","R","O","C","E","D","U","R","E"," ","p"," ","A","S"," ">>
      [] f = "VIEW v AS " -> <<"V","I","E","W"," ","v"," ","A","S"," ">>
      [] f = "BEGIN " -> <<"B","E","G","I","N"," ">>
      [] f = "NULL; END;" -> <<"N","U","L","L",";"," ","E","N","D",";">>
      [] f = " " -> <<" ">>
      [] f = " -- " -> <<" ","-","-"," ">>
      [] f = "x" -> <<"x">>
      [] f = "nowhere" -> <<"n","o","w","h","e","r","e">>
      [] f = "FUNCTION f " -> <<"F","U","N","C","T","I","O","N"," ","f"," ">>

RECURSIVE Chars(_)
Chars(text) == IF text = <<>> THEN <<>> ELSE FragChars(Head(text)) \o Chars(Tail(text))

\* The object pattern of executePlsql's compilation check:
\* /CREATE\s+(OR\s+REPLACE\s+)?(PROCEDURE|FUNCTION|PACKAGE|TRIGGER|TYPE)\s+(\w+)/i
CompilableObjects == {KW_PROCEDURE, KW_FUNCTION, KW_PACKAGE, KW_TRIGGER, KW_TYPE}

NamedObjectAt(u, j) ==
    \E kw \in CompilableObjects :
        MatchAt(u, j, kw) /\ \E m \in AfterSpaces(u, j + Len(kw)) : IsW(u, m)

createMatch(plsql) ==
    LET u == toUpperCase(plsql)
    IN  /\ includes(u, KW_CREATE)
        /\ \E i \in 1..Len(u) :
              /\ MatchAt(u, i, KW_CREATE)
              /\ \E j \in AfterSpaces(u, i + Len(KW_CREATE)) :
                    \/ NamedObjectAt(u, j)
                    \/ /\ MatchAt(u, j, KW_OR)
                       /\ \E k \in AfterSpaces(u, j + Len(KW_OR)) :
                             /\ MatchAt(u, k, KW_REPLACE)
                             /\ \E m \in AfterSpaces(u, k + Len(KW_REPLACE)) :
                                   NamedObjectAt(u, m)

(***************************************************************************)
(* The texts the tool calls of the state machine are given, and the        *)
(* classifier's and assessor's answers for them (the pure functions are    *)
(* evaluated on the characters of each text).                              *)
(***************************************************************************)
CallTexts ==
    { <<"SELECT 1">>,
      <<"INSERT INTO t">>,
      <<"DELETE FROM t">>,
      <<"DROP TABLE t">>,
      <<"BEGIN ", "NULL; END;">>,
      <<"CREATE OR REPLACE ", "PROCEDURE p AS ", "DROP TABLE t">>,
      <<"DROP TABLE t", " -- ", "CREATE ", "VIEW v AS ">> }

\* The fewer texts given to calls that overlap.
OverlapTexts == { <<"INSERT INTO t">> }

NoText == <<>>

queryTypeOf == [t \in CallTexts \cup {NoText} |-> detectQueryType(Chars(t))]
dangerOf == [t \in CallTexts \cup {NoText} |-> assessDangerLevel(Chars(t), queryTypeOf[t])]
allowedCreateOf == [t \in CallTexts \cup {NoText} |-> allowedCreate(Chars(t))]
createMatchOf == [t \in CallTexts \cup {NoText} |-> createMatch(Chars(t))]

(***************************************************************************)
(* Configuration: the connection profiles (ConnectionConfig), immutable.   *)
(* "nx" is a name no profile is registered under.                          *)
(***************************************************************************)
connectionConfigs ==
    [ ro   |-> [mode |-> "readonly",  hasDsn |-> TRUE, hasPassword |-> TRUE],
      rw   |-> [mode |-> "readwrite", hasDsn |-> TRUE, hasPassword |-> TRUE],
      nopw |-> [mode |-> "readwrite", hasDsn |-> TRUE, hasPassword |-> FALSE] ]

Registered == DOMAIN connectionConfigs
ConnNames == Registered \cup {"nx"}

\* The tool calls that may be in flight at the same time.
Calls == {"c1", "c2"}

\* The number of sessions the driver opens in one run of the model.
MaxSessions == 2

\* ServerConfig.defaultMaxRows, as configured when no configuration sets it.
defaultMaxRows == 100

\* The cap the execute_query tool passes when its max_rows argument is absent or 0.
toolDefaultMaxRows == 100

\* The max_rows arguments of the execute_query calls (0: absent, or 0).
MaxRowsArgs == {0, 1, 2}

\* The number of fragments of the texts given to the classifier and the assessor.
MaxFrags == 2

\* The fragments of the texts given to the classifier and the assessor: those with
\* the words their rules look for.
TextFrags ==
    Frags \ {"SELECT 1", "TRUNCATE TABLE t", "CREATE ", "PROCEDURE p AS ", "VIEW v AS ",
             "NULL; END;", " ", " -- ", "x"}

\* The texts of at most MaxFrags fragments.
Texts == UNION {[1..n -> TextFrags] : n \in 0..MaxFrags}

Ops == {"executeQuery", "executeDml", "executePlsql", "executeProcedure", "commit",
        "rollback", "explainPlan", "browse", "connect", "disconnect", "disconnectAll",
        "text", "detectQueryType", "assessDangerLevel"}

VARIABLES
    connections,   \* ConnectionManager.connections: name -> session (0: no entry)
    sess,          \* the sessions the driver has opened, by session number
    call           \* the tool calls: arguments, local variables, position, outcome

vars == <<connections, sess, call>>

\* What a call returns: success or failure, the error, the warnings, and of the
\* rest of the result what the entry point computes: executeDml's commit message,
\* executeQuery's rowCount, disconnect's boolean and disconnectAll's count.
NoResult == [outcome |-> "none", error |-> "none", warnings |-> <<>>,
             commitMsg |-> "none", rowCount |-> 0, value |-> "none", count |-> 0,
             queryType |-> "none", level |-> "none"]

IdleCall == [op |-> "idle", name |-> "-", sql |-> NoText, commit |-> FALSE,
             maxRows |-> 0, rows |-> 0, keys |-> <<>>, count |-> 0, queryType |-> "none",
             pc |-> "idle", phase |-> "main", conn |-> 0, err |-> "none",
             nConnect |-> 0, result |-> NoResult]

NewCall(op, name, sql, commit) ==
    [IdleCall EXCEPT !.op = op, !.name = name, !.sql = sql, !.commit = commit]

Init ==
    /\ connections = [n \in ConnNames |-> 0]
    /\ sess = <<>>
    /\ call = [c \in Calls |-> IdleCall]

(***************************************************************************)
(* Outcomes.  A call ends by returning an outcome ("ok": success: true,    *)
(* "fail": success: false) or by throwing to the request handler ("throw").*)
(***************************************************************************)
ReadOnlyAdvisory == <<"Connection is READ ONLY">>

ResultsLimited == <<"Results limited">>

\* The warnings an entry point attaches to the outcomes it builds after its gates:
\* executeDml and executePlsql the assessment's, executeProcedure the advisory.
outcomeWarnings(cr) ==
    CASE cr.op \in {"executeDml", "executePlsql"} -> dangerOf[cr.sql].warnings
      [] cr.op = "executeProcedure" ->
            IF connectionConfigs[cr.name].mode = "readonly" THEN ReadOnlyAdvisory ELSE <<>>
      [] OTHER -> <<>>

Done(cr, outcome, error, warnings) ==
    [cr EXCEPT !.pc = "done",
               !.result = [NoResult EXCEPT !.outcome = outcome, !.error = error,
                                           !.warnings = warnings]]

Succeed(cr) == Done(cr, "ok", "none", outcomeWarnings(cr))

\* The catch blocks as they would be if they rethrew the error caught.
Fail_rethrown(cr) == Done(cr, "throw", cr.err, <<>>)

\* The catch blocks that build a failure outcome from the error caught.
Fail(cr) == Done(cr, "fail", cr.err, outcomeWarnings(cr))

\* The error leaves the entry point (no catch, or rethrown).
Thrown(cr) == Done(cr, "throw", cr.err, <<>>)

\* An error is thrown; err keeps the first error of the call, which is the one the
\* catch blocks report.
Throw(cr, e) == [cr EXCEPT !.pc = "throw", !.err = IF @ = "none" THEN e ELSE @]

(***************************************************************************)
(* ConnectionManager: the synchronous parts.  They end at the next driver  *)
(* operation (pc names the operation issued) or with pc = "throw".         *)
(***************************************************************************)
\* getConnectionConfig
getConnectionConfig(cr) ==
    IF cr.name \in Registered THEN cr ELSE Throw(cr, "not found")

\* connect(), from the lookup of the profile to the call of oracledb.getConnection.
connectSync(cr) ==
    IF cr.name \notin Registered THEN Throw(cr, "not found")
    ELSE IF ~connectionConfigs[cr.name].hasDsn THEN Throw(cr, "no target")
    ELSE IF ~connectionConfigs[cr.name].hasPassword THEN Throw(cr, "no password")
    ELSE [cr EXCEPT !.pc = "connecting", !.conn = 0, !.nConnect = @ + 1]

\* connect(), from its start: a cached session is probed.
connectStart(cr, conns) ==
    IF conns[cr.name] # 0
    THEN [cr EXCEPT !.pc = "ping2", !.conn = conns[cr.name]]
    ELSE connectSync(cr)

\* getConnection as it would be if it connected without looking at the cache.
getConnection_unprobed(cr, conns) == connectSync(cr)

\* getConnection(): isConnected probes a cached session; with none cached it
\* returns false and connect() runs, which finds none cached either.
getConnection(cr, conns) ==
    IF conns[cr.name] # 0
    THEN [cr EXCEPT !.pc = "ping", !.conn = conns[cr.name]]
    ELSE connectSync(cr)

(***************************************************************************)
(* The entry points' handling of an error thrown inside them.              *)
(***************************************************************************)
\* The handling of errors as it would be if executeDml's catch block built the
\* failure outcome without a rollback.
OnThrow_noRollback(cr, conns) ==
    CASE cr.op = "explainPlan" ->
            IF cr.phase = "main" /\ cr.conn # 0
            THEN [cr EXCEPT !.phase = "cleanup", !.pc = "delete"]
            ELSE Thrown(cr)
      [] cr.op \in {"executeQuery", "executeDml", "executePlsql",
                    "executeProcedure", "rollback", "commit"} ->
            Fail(cr)
      [] OTHER -> Thrown(cr)

OnThrow(cr, conns) ==
    CASE cr.op = "executeDml" ->
            \* catch: rollback on a session acquired again; errors of that ignored
            IF cr.phase = "main"
            THEN LET r == getConnection([cr EXCEPT !.phase = "rollback"], conns)
                 IN  IF r.pc = "throw" THEN Fail(r) ELSE r
            ELSE Fail(cr)
      [] cr.op = "explainPlan" ->
            \* the acquisition is outside the try; inside it, the catch cleans up
            \* (DELETE, commit; errors of that ignored) and rethrows
            IF cr.phase = "main" /\ cr.conn # 0
            THEN [cr EXCEPT !.phase = "cleanup", !.pc = "delete"]
            ELSE Thrown(cr)
      [] cr.op \in {"executeQuery", "executePlsql", "executeProcedure", "rollback", "commit"} ->
            Fail(cr)
      [] OTHER -> Thrown(cr)

\* The entry point continues with the session it acquired in cr.conn (0: undefined,
\* on which any method call throws a TypeError).
OnAcquired(cr, conns) ==
    IF cr.op = "connect" THEN Succeed(cr)
    ELSE IF cr.conn = 0
        THEN OnThrow(Throw([cr EXCEPT !.phase = IF @ = "acquire" THEN "main" ELSE @],
                           "TypeError"), conns)
    ELSE CASE cr.op = "executeDml" /\ cr.phase = "rollback" -> [cr EXCEPT !.pc = "rollback"]
           [] cr.op = "rollback" -> [cr EXCEPT !.pc = "rollback"]
           [] cr.op = "commit" -> [cr EXCEPT !.pc = "commit"]
           [] cr.op = "explainPlan" -> [cr EXCEPT !.phase = "main", !.pc = "exec"]
           [] OTHER -> [cr EXCEPT !.pc = "exec"]

\* An acquisition started by an entry point: what the call is left at.
Acquire(cr, conns) ==
    LET r == getConnection(cr, conns)
    IN  IF r.pc = "throw" THEN OnThrow(r, conns) ELSE r

(***************************************************************************)
(* QueryExecutor and SchemaBrowser: the entry points up to their first     *)
(* driver operation (their gates), as functions of the call and the cache. *)
(***************************************************************************)
\* executeQuery as it would be without the check of the kind of the text.
executeQuery_kindUnchecked(cr, conns) == Acquire(cr, conns)

\* The row cap of an executeQuery whose maxRows argument is m (0: none given).
rowCap(m) == IF m = 0 THEN defaultMaxRows ELSE m

\* The maxRows option of executeQuery's execute: one row more than the cap.
requestedRows(m) == rowCap(m) + 1

\* executeQuery's success outcome as it would be if the rows were returned as the
\* driver gave them.
limitRows_untrimmed(cr, n) ==
    [Succeed(cr) EXCEPT !.rows = n, !.result.rowCount = n]

\* executeQuery's success outcome for n rows from the driver: the rows beyond the
\* cap are dropped, with a warning.
limitRows(cr, n) ==
    LET maxRows == rowCap(cr.maxRows)
        hasMore == n > maxRows
    IN  [Succeed(cr) EXCEPT !.rows = n,
                            !.result.rowCount = IF hasMore THEN maxRows ELSE n,
                            !.result.warnings = IF hasMore THEN ResultsLimited ELSE <<>>]

executeQuery(cr, conns) ==
    IF queryTypeOf[cr.sql] # "select"
    THEN Done(cr, "fail", "Invalid query type", <<>>)
    ELSE Acquire(cr, conns)

\* executeDml as it would be without the check of the connection mode.
executeDml_modeUnchecked(cr, conns) ==
    LET cfg == getConnectionConfig(cr)
    IN  IF cfg.pc = "throw" THEN Thrown(cfg)
        ELSE IF dangerOf[cr.sql].level = "critical"
            THEN Done(cr, "fail", "Dangerous operation blocked", dangerOf[cr.sql].warnings)
        ELSE Acquire(cr, conns)

\* executeDml as it would be if the assessment were skipped for a name whose
\* session is cached.
executeDml_cachedUnassessed(cr, conns) ==
    LET cfg == getConnectionConfig(cr)
    IN  IF cfg.pc = "throw" THEN Thrown(cfg)
        ELSE IF connectionConfigs[cr.name].mode = "readonly"
            THEN Done(cr, "fail", "Connection is read-only", <<>>)
        ELSE IF conns[cr.name] = 0 /\ dangerOf[cr.sql].level = "critical"
            THEN Done(cr, "fail", "Dangerous operation blocked", dangerOf[cr.sql].warnings)
        ELSE Acquire(cr, conns)

executeDml(cr, conns) ==
    LET cfg == getConnectionConfig(cr)
    IN  IF cfg.pc = "throw" THEN Thrown(cfg)
        ELSE IF connectionConfigs[cr.name].mode = "readonly"
            THEN Done(cr, "fail", "Connection is read-only", <<>>)
        ELSE IF dangerOf[cr.sql].level = "critical"
            THEN Done(cr, "fail", "Dangerous operation blocked", dangerOf[cr.sql].warnings)
        ELSE Acquire(cr, conns)

executePlsql(cr, conns) ==
    LET cfg == getConnectionConfig(cr)
    IN  IF cfg.pc = "throw" THEN Thrown(cfg)
        ELSE IF connectionConfigs[cr.name].mode = "readonly"
            THEN Done(cr, "fail", "Connection is read-only", <<>>)
        ELSE IF dangerOf[cr.sql].level = "critical" /\ ~allowedCreateOf[cr.sql]
            THEN Done(cr, "fail", "Dangerous operation blocked", dangerOf[cr.sql].warnings)
        ELSE Acquire(cr, conns)

executeProcedure(cr, conns) ==
    LET cfg == getConnectionConfig(cr)
    IN  IF cfg.pc = "throw" THEN Thrown(cfg) ELSE Acquire(cr, conns)

rollback(cr, conns) == Acquire(cr, conns)

commit(cr, conns) ==
    LET cfg == getConnectionConfig(cr)
    IN  IF cfg.pc = "throw" THEN Thrown(cfg)
        ELSE IF connectionConfigs[cr.name].mode = "readonly"
            THEN Done(cr, "fail", "Connection is read-only", <<>>)
        ELSE Acquire(cr, conns)

explainPlan(cr, conns) == Acquire([cr EXCEPT !.phase = "acquire"], conns)

\* The schema browsing entry points (listTables, describeTable, ...): a session is
\* acquired and SELECT statements on the data dictionary are executed.
browse(cr, conns) == Acquire(cr, conns)

\* The connect tool: connect(name), then getConnectionConfig(name).
connectTool(cr, conns) ==
    LET r == connectStart(cr, conns)
    IN  IF r.pc = "throw" THEN Thrown(r) ELSE r

\* executeDml's success outcome as it would be if its message did not depend on
\* the commit flag.
dmlSuccess_alwaysCommitted(cr) ==
    [Succeed(cr) EXCEPT !.result.commitMsg = "Changes committed."]

\* executeDml's success outcome: the message says whether the commit was made.
dmlSuccess(cr) ==
    [Succeed(cr) EXCEPT !.result.commitMsg =
        IF cr.commit THEN "Changes committed." ELSE "Changes NOT committed"]

\* executePlsql after its execute and optional commit: the compilation check.
afterPlsql(cr) ==
    IF createMatchOf[cr.sql] THEN [cr EXCEPT !.pc = "status"] ELSE Succeed(cr)

(***************************************************************************)
(* The tool calls start (CallToolRequestSchema handler, executeTool).      *)
(***************************************************************************)
\* A request arrives while call slot c is free.  The slots are interchangeable:
\* the second is used while the first is busy.
Free(c) == call[c].pc = "idle" /\ (c = "c2" => call["c1"].pc # "idle")

Begin(c, r) ==
    /\ Free(c)
    /\ call' = [call EXCEPT ![c] = r]
    /\ UNCHANGED <<connections, sess>>

\* The execute_query tool's cap for the max_rows argument m.
toolMaxRows(m) == IF m = 0 THEN toolDefaultMaxRows ELSE m

\* executeQuery is called with the cap of the execute_query tool, or by a caller
\* that passes its own argument on (0: none, or 0).
StartExecuteQuery(c, names, texts) ==
    \E n \in names, t \in texts,
       m \in MaxRowsArgs \cup {toolMaxRows(a) : a \in MaxRowsArgs} :
        Begin(c, executeQuery([NewCall("executeQuery", n, t, FALSE)
                                  EXCEPT !.maxRows = m], connections))

StartExecuteDml(c, names, texts) ==
    \E n \in names, t \in texts, cm \in BOOLEAN :
        Begin(c, executeDml(NewCall("executeDml", n, t, cm), connections))

StartExecutePlsql(c, names, texts) ==
    \E n \in names, t \in texts, cm \in BOOLEAN :
        Begin(c, executePlsql(NewCall("executePlsql", n, t, cm), connections))

StartExecuteProcedure(c, names) ==
    \E n \in names :
        Begin(c, executeProcedure(NewCall("executeProcedure", n, NoText, FALSE), connections))

StartCommit(c, names) ==
    \E n \in names : Begin(c, commit(NewCall("commit", n, NoText, FALSE), connections))

StartRollback(c, names) ==
    \E n \in names : Begin(c, rollback(NewCall("rollback", n, NoText, FALSE), connections))

StartExplainPlan(c, names, texts) ==
    \E n \in names, t \in texts :
        Begin(c, explainPlan(NewCall("explainPlan", n, t, FALSE), connections))

StartBrowse(c, names) ==
    \E n \in names : Begin(c, browse(NewCall("browse", n, NoText, FALSE), connections))

StartConnect(c, names) ==
    \E n \in names : Begin(c, connectTool(NewCall("connect", n, NoText, FALSE), connections))

\* What disconnect and disconnectAll return: a boolean (as a string), a count.
Returned(cr, value, count) ==
    [Succeed(cr) EXCEPT !.result.value = value, !.result.count = count]

\* The sessions after close has been called on the session a call awaits.
closeCalled(ss, r) ==
    IF r.pc = "close" THEN [ss EXCEPT ![r.conn].closing = TRUE] ELSE ss

\* disconnect(name): close is called on the cached session, if there is one.
StartDisconnect(c, names) ==
    \E n \in names :
        LET cr == NewCall("disconnect", n, NoText, FALSE)
            s == connections[n]
            r == IF s # 0 THEN [cr EXCEPT !.pc = "close", !.conn = s]
                 ELSE Returned(cr, "false", 0)
        IN  /\ Free(c)
            /\ call' = [call EXCEPT ![c] = r]
            /\ sess' = closeCalled(sess, r)
            /\ UNCHANGED connections

\* Array.from(this.connections.keys()): the names cached, in the order of the Map,
\* which is the order in which their sessions were opened.
cachedNames(conns) ==
    LET S == {n \in DOMAIN conns : conns[n] # 0}
    IN  CHOOSE q \in [1..Cardinality(S) -> S] :
            \A i, j \in 1..Cardinality(S) : i < j => conns[q[i]] < conns[q[j]]

\* disconnectAll's loop as it would be if it ended at the first name taken.
disconnectNext_firstOnly(cr, conns) == Returned(cr, "none", cr.count)

\* disconnectAll's loop, from the name it is at to its next close or to its end:
\* disconnect(name) of a name with no entry returns false at once.
RECURSIVE disconnectNext(_, _)
disconnectNext(cr, conns) ==
    IF cr.keys = <<>> THEN Returned(cr, "none", cr.count)
    ELSE LET n == Head(cr.keys)
             r == [cr EXCEPT !.keys = Tail(@), !.name = n]
         IN  IF conns[n] # 0
             THEN [r EXCEPT !.pc = "close", !.conn = conns[n]]
             ELSE disconnectNext(r, conns)

\* disconnectAll(), called by the SIGINT and SIGTERM handlers.
StartDisconnectAll(c) ==
    LET cr == [NewCall("disconnectAll", "-", NoText, FALSE)
                  EXCEPT !.keys = cachedNames(connections)]
        r == disconnectNext(cr, connections)
    IN  /\ Free(c)
        /\ call' = [call EXCEPT ![c] = r]
        /\ sess' = closeCalled(sess, r)
        /\ UNCHANGED connections

\* The outcome is handed to the client and the call is over (after disconnectAll
\* the process exits).
Return(c) ==
    /\ call[c].pc = "done"
    /\ call[c].op # "disconnectAll"
    /\ call' = [call EXCEPT ![c] = IdleCall]
    /\ UNCHANGED <<connections, sess>>

(***************************************************************************)
(* The driver and the database.  A call is suspended at one driver         *)
(* operation at a time (its pc); the operation completes, with success or  *)
(* with an error, and the call runs on to its next driver operation or to  *)
(* its end.  Any operation may fail; it fails on a session that is closed, *)
(* and a statement that modifies data fails in a read-only transaction.    *)
(* SET TRANSACTION READ ONLY holds for the transaction it starts, which    *)
(* commit and rollback end.                                                *)
(***************************************************************************)
NewSession(n) == [name |-> n, open |-> TRUE, closing |-> FALSE, roTx |-> FALSE, pending |-> FALSE]

Usable(s) == s \in 1..Len(sess) /\ sess[s].open

\* The numbers of rows the driver may return to an execute whose maxRows option is
\* k: none, or up to k; those around the cap are taken.
DriverRows(k) == {n \in {0, k - 2, k - 1, k} : n >= 0}

\* What the statement a call has in flight may do to the data.
Effects(cr) ==
    CASE cr.pc \in {"plan", "status", "errors"} -> {"none"}
      [] cr.pc = "delete" -> {"write"}
      [] cr.op \in {"executeQuery", "browse"} -> {"none"}
      [] cr.op = "explainPlan" -> {"write"}
      [] cr.op = "executeDml" /\ queryTypeOf[cr.sql] \in {"insert", "update", "delete"} -> {"write"}
      [] OTHER -> {"none", "write"}

\* commit and rollback as they would be if they left the transaction open.
EndTransaction_leftOpen(s) == sess

\* Connection.commit / Connection.rollback: the transaction ends.
EndTransaction(s) == [sess EXCEPT ![s].pending = FALSE, ![s].roTx = FALSE]

\* The error a failed driver operation throws, by the operation the call awaits.
driverMessage(pc) ==
    CASE pc = "connecting" -> "connect failed"
      [] pc = "commit" -> "commit failed"
      [] pc \in {"rollback"} -> "rollback failed"
      [] pc = "close" -> "close failed"
      [] pc \in {"ping", "ping2"} -> "ping failed"
      [] OTHER -> "execute failed"

DriverError(cr) == Throw(cr, driverMessage(cr.pc))

\* isConnected as it would be if a failed probe cleared the whole cache.
Ping_cacheCleared(c) ==
    /\ call[c].pc = "ping"
    /\ \E ok \in BOOLEAN :
         LET cr == call[c]
             conns == IF ok THEN connections ELSE [n \in ConnNames |-> 0]
             k == connectSync(cr)
         IN  /\ ok => Usable(cr.conn)
             /\ connections' = conns
             /\ call' = [call EXCEPT ![c] =
                    IF ok THEN OnAcquired([cr EXCEPT !.conn = connections[cr.name]], conns)
                    ELSE IF k.pc = "throw" THEN OnThrow(k, conns) ELSE k]
    /\ UNCHANGED sess

\* isConnected's ping completes (getConnection).
Ping(c) ==
    /\ call[c].pc = "ping"
    /\ \E ok \in BOOLEAN :
         LET cr == call[c]
             conns == IF ok THEN connections ELSE [connections EXCEPT ![cr.name] = 0]
             k == connectSync(cr)
         IN  /\ ok => Usable(cr.conn)
             /\ connections' = conns
             /\ call' = [call EXCEPT ![c] =
                    IF ok THEN OnAcquired([cr EXCEPT !.conn = connections[cr.name]], conns)
                    ELSE IF k.pc = "throw" THEN OnThrow(k, conns) ELSE k]
    /\ UNCHANGED sess

\* connect()'s ping of the existing session completes (connect tool).
PingExisting(c) ==
    /\ call[c].pc = "ping2"
    /\ \E ok \in BOOLEAN :
         LET cr == call[c]
             conns == IF ok THEN connections ELSE [connections EXCEPT ![cr.name] = 0]
             k == connectSync(cr)
         IN  /\ ok => Usable(cr.conn)
             /\ connections' = conns
             /\ call' = [call EXCEPT ![c] =
                    IF ok THEN OnAcquired(cr, conns)
                    ELSE IF k.pc = "throw" THEN OnThrow(k, conns) ELSE k]
    /\ UNCHANGED sess

\* connect() as it would be if it cached the session as soon as it is opened.
Connecting_cachedAtOnce(c) ==
    /\ call[c].pc = "connecting"
    /\ \E ok \in BOOLEAN :
         LET cr == call[c]
             s == Len(sess) + 1
             conns == [connections EXCEPT ![cr.name] = s]
         IN  /\ ok => Len(sess) < MaxSessions
             /\ IF ~ok
                THEN /\ call' = [call EXCEPT ![c] = OnThrow(DriverError(cr), connections)]
                     /\ UNCHANGED <<connections, sess>>
                ELSE /\ sess' = Append(sess, NewSession(cr.name))
                     /\ connections' = conns
                     /\ call' = [call EXCEPT ![c] =
                            IF connectionConfigs[cr.name].mode = "readonly"
                            THEN [cr EXCEPT !.pc = "setro", !.conn = s]
                            ELSE OnAcquired([cr EXCEPT !.conn = s], conns)]

\* oracledb.getConnection completes.
Connecting(c) ==
    /\ call[c].pc = "connecting"
    /\ \E ok \in BOOLEAN :
         LET cr == call[c]
             s == Len(sess) + 1
             conns == [connections EXCEPT ![cr.name] = s]
         IN  /\ ok => Len(sess) < MaxSessions
             /\ IF ~ok
                THEN /\ call' = [call EXCEPT ![c] = OnThrow(DriverError(cr), connections)]
                     /\ UNCHANGED <<connections, sess>>
                ELSE /\ sess' = Append(sess, NewSession(cr.name))
                     /\ IF connectionConfigs[cr.name].mode = "readonly"
                        THEN /\ call' = [call EXCEPT ![c] = [cr EXCEPT !.pc = "setro", !.conn = s]]
                             /\ UNCHANGED connections
                        ELSE /\ connections' = conns
                             /\ call' = [call EXCEPT ![c] =
                                    OnAcquired([cr EXCEPT !.conn = s], conns)]

\* connect()'s SET TRANSACTION READ ONLY completes.
SetReadOnly(c) ==
    /\ call[c].pc = "setro"
    /\ \E ok \in BOOLEAN :
         LET cr == call[c]
             conns == [connections EXCEPT ![cr.name] = cr.conn]
         IN  /\ ok => Usable(cr.conn)
             /\ IF ok
                THEN /\ sess' = [sess EXCEPT ![cr.conn].roTx = TRUE]
                     /\ connections' = conns
                     /\ call' = [call EXCEPT ![c] = OnAcquired(cr, conns)]
                ELSE /\ call' = [call EXCEPT ![c] = OnThrow(DriverError(cr), connections)]
                     /\ UNCHANGED <<connections, sess>>

\* The entry point's statement completes: the caller's text (executeQuery,
\* executeDml, executePlsql), BEGIN <procedure>(...); END; (executeProcedure),
\* EXPLAIN PLAN ... FOR <text> (explainPlan), a dictionary SELECT (browsing).
Execute(c) ==
    /\ call[c].pc = "exec"
    /\ \E ok \in BOOLEAN, eff \in Effects(call[c]),
          n \in DriverRows(requestedRows(call[c].maxRows)) :
         LET cr == call[c]
         IN  /\ ok => Usable(cr.conn) /\ (eff = "write" => ~sess[cr.conn].roTx)
             /\ (cr.op # "executeQuery" \/ ~ok) => n = 0
             /\ sess' = IF ok /\ eff = "write" THEN [sess EXCEPT ![cr.conn].pending = TRUE]
                        ELSE sess
             /\ call' = [call EXCEPT ![c] =
                    IF ~ok THEN OnThrow(DriverError(cr), connections)
                    ELSE CASE cr.op = "executeDml" ->
                                 IF cr.commit THEN [cr EXCEPT !.pc = "commit"] ELSE dmlSuccess(cr)
                           [] cr.op = "executePlsql" ->
                                 IF cr.commit THEN [cr EXCEPT !.pc = "commit"] ELSE afterPlsql(cr)
                           [] cr.op = "executeProcedure" -> [cr EXCEPT !.pc = "commit"]
                           [] cr.op = "explainPlan" -> [cr EXCEPT !.pc = "plan"]
                           [] cr.op = "executeQuery" -> limitRows(cr, n)
                           [] OTHER -> Succeed(cr)]
    /\ UNCHANGED connections

\* connection.commit() completes.
Commit(c) ==
    /\ call[c].pc = "commit"
    /\ \E ok \in BOOLEAN :
         LET cr == call[c]
         IN  /\ ok => Usable(cr.conn)
             /\ sess' = IF ok THEN EndTransaction(cr.conn) ELSE sess
             /\ call' = [call EXCEPT ![c] =
                    IF ~ok THEN OnThrow(DriverError(cr), connections)
                    ELSE CASE cr.op = "executePlsql" -> afterPlsql(cr)
                           [] cr.op = "executeDml" -> dmlSuccess(cr)
                           [] cr.op = "explainPlan" /\ cr.phase = "cleanup" -> Thrown(cr)
                           [] OTHER -> Succeed(cr)]
    /\ UNCHANGED connections

\* connection.rollback() completes (rollback entry point, executeDml's catch).
Rollback(c) ==
    /\ call[c].pc = "rollback"
    /\ \E ok \in BOOLEAN :
         LET cr == call[c]
         IN  /\ ok => Usable(cr.conn)
             /\ sess' = IF ok THEN EndTransaction(cr.conn) ELSE sess
             /\ call' = [call EXCEPT ![c] =
                    IF cr.op = "executeDml" THEN Fail(cr)
                    ELSE IF ok THEN Succeed(cr)
                    ELSE OnThrow(DriverError(cr), connections)]
    /\ UNCHANGED connections

\* explainPlan's SELECT from plan_table completes.
Plan(c) ==
    /\ call[c].pc = "plan"
    /\ \E ok \in BOOLEAN :
         LET cr == call[c]
         IN  /\ ok => Usable(cr.conn)
             /\ call' = [call EXCEPT ![c] =
                    IF ok THEN [cr EXCEPT !.pc = "delete"]
                    ELSE OnThrow(DriverError(cr), connections)]
    /\ UNCHANGED <<connections, sess>>

\* explainPlan's DELETE FROM plan_table completes (try block, or catch block).
Delete(c) ==
    /\ call[c].pc = "delete"
    /\ \E ok \in BOOLEAN :
         LET cr == call[c]
         IN  /\ ok => Usable(cr.conn) /\ ~sess[cr.conn].roTx
             /\ sess' = IF ok THEN [sess EXCEPT ![cr.conn].pending = TRUE] ELSE sess
             /\ call' = [call EXCEPT ![c] =
                    IF ok THEN [cr EXCEPT !.pc = "commit"]
                    ELSE OnThrow(DriverError(cr), connections)]
    /\ UNCHANGED connections

\* executePlsql's SELECT status FROM user_objects completes.
Status(c) ==
    /\ call[c].pc = "status"
    /\ \E ok \in BOOLEAN, status \in {"no rows", "VALID", "INVALID"} :
         LET cr == call[c]
         IN  /\ ok => Usable(cr.conn)
             /\ call' = [call EXCEPT ![c] =
                    IF ~ok THEN OnThrow(DriverError(cr), connections)
                    ELSE IF status = "INVALID" THEN [cr EXCEPT !.pc = "errors"]
                    ELSE Succeed(cr)]
    /\ UNCHANGED <<connections, sess>>

\* executePlsql's SELECT ... FROM user_errors completes.
Errors(c) ==
    /\ call[c].pc = "errors"
    /\ \E ok \in BOOLEAN, rows \in BOOLEAN :
         LET cr == call[c]
         IN  /\ ok => Usable(cr.conn)
             /\ call' = [call EXCEPT ![c] =
                    IF ~ok THEN OnThrow(DriverError(cr), connections)
                    ELSE IF rows THEN Done(cr, "fail", "Compilation failed", <<>>)
                    ELSE Succeed(cr)]
    /\ UNCHANGED <<connections, sess>>

\* disconnect as it would be if an error of close left the entry in the cache and
\* were thrown.
Close_entryKeptOnError(c) ==
    /\ call[c].pc = "close"
    /\ \E ok \in BOOLEAN :
         LET cr == call[c]
             conns == IF ok THEN [connections EXCEPT ![cr.name] = 0] ELSE connections
             r == IF ~ok THEN Thrown(DriverError(cr))
                  ELSE IF cr.op = "disconnectAll"
                      THEN disconnectNext([cr EXCEPT !.count = @ + 1], conns)
                  ELSE Returned(cr, "true", 0)
             closed == IF ok THEN [sess EXCEPT ![cr.conn].open = FALSE,
                                               ![cr.conn].roTx = FALSE,
                                               ![cr.conn].pending = FALSE]
                       ELSE [sess EXCEPT ![cr.conn].closing = FALSE]
         IN  /\ ok => Usable(cr.conn)
             /\ connections' = conns
             /\ call' = [call EXCEPT ![c] = r]
             /\ sess' = closeCalled(closed, r)

\* disconnect's close completes, with or without an error (which is logged): the
\* entry is deleted and disconnect returns true; disconnectAll counts it and goes on.
Close(c) ==
    /\ call[c].pc = "close"
    /\ \E ok \in BOOLEAN :
         LET cr == call[c]
             conns == [connections EXCEPT ![cr.name] = 0]
             r == IF cr.op = "disconnectAll"
                  THEN disconnectNext([cr EXCEPT !.count = @ + 1], conns)
                  ELSE Returned(cr, "true", 0)
             closed == IF ok THEN [sess EXCEPT ![cr.conn].open = FALSE,
                                               ![cr.conn].roTx = FALSE,
                                               ![cr.conn].pending = FALSE]
                       ELSE [sess EXCEPT ![cr.conn].closing = FALSE]
         IN  /\ ok => Usable(cr.conn)
             /\ connections' = conns
             /\ call' = [call EXCEPT ![c] = r]
             /\ sess' = closeCalled(closed, r)

(***************************************************************************)
(* Specifications.  SpecSeq: one call at a time, as a client that awaits   *)
(* each answer drives the server, with every entry point, name and text.   *)
(* Spec: two calls overlap (the request handler is async and nothing       *)
(* serialises the calls); the calls are those that acquire, use, end the   *)
(* transaction of and close the sessions: connect, disconnect, commit,     *)
(* rollback and executeDml, on the profiles that can be connected.         *)
(***************************************************************************)
OverlapNames == {"ro", "rw"}

Complete(c) ==
    \/ Ping(c) \/ PingExisting(c) \/ Connecting(c) \/ SetReadOnly(c)
    \/ Execute(c) \/ Commit(c) \/ Rollback(c)
    \/ Plan(c) \/ Delete(c) \/ Status(c) \/ Errors(c) \/ Close(c)
    \/ Return(c)

Start(c, names, texts) ==
    \/ StartExecuteQuery(c, names, texts)
    \/ StartExecuteDml(c, names, texts)
    \/ StartExecutePlsql(c, names, texts)
    \/ StartExecuteProcedure(c, names)
    \/ StartCommit(c, names)
    \/ StartRollback(c, names)
    \/ StartExplainPlan(c, names, texts)
    \/ StartBrowse(c, names)
    \/ StartConnect(c, names)
    \/ StartDisconnect(c, names)
    \/ StartDisconnectAll(c)

NextSeq ==
    \/ Start("c1", ConnNames, CallTexts)
    \/ Complete("c1")

SpecSeq == Init /\ [][NextSeq]_vars

StartOverlap(c) ==
    \/ StartExecuteDml(c, OverlapNames, OverlapTexts)
    \/ StartCommit(c, OverlapNames)
    \/ StartRollback(c, OverlapNames)
    \/ StartConnect(c, OverlapNames)
    \/ StartDisconnect(c, OverlapNames)

CompleteOverlap(c) ==
    \/ Ping(c) \/ PingExisting(c) \/ Connecting(c) \/ SetReadOnly(c)
    \/ Execute(c) \/ Commit(c) \/ Rollback(c) \/ Close(c)
    \/ Return(c)

Next ==
    \E c \in Calls :
        \/ StartOverlap(c)
        \/ CompleteOverlap(c)

Spec == Init /\ [][Next]_vars

\* SpecCache: an operation of the ConnectionManager (connect, disconnect, or the
\* getConnection of a rollback) overlaps a call of an entry point, which may be
\* suspended at any of its driver operations meanwhile.
StartEntryPoint(c) ==
    \/ StartExecuteDml(c, OverlapNames, OverlapTexts)
    \/ StartExecuteProcedure(c, OverlapNames)
    \/ StartRollback(c, OverlapNames)

StartCache(c) ==
    \/ StartConnect(c, OverlapNames)
    \/ StartDisconnect(c, OverlapNames)
    \/ StartRollback(c, OverlapNames)

CompleteCache(c) ==
    \/ Ping(c) \/ PingExisting(c) \/ Connecting(c) \/ SetReadOnly(c)
    \/ Execute(c) \/ Commit(c) \/ Rollback(c) \/ Close(c)
    \/ Return(c)

NextCache ==
    \/ StartEntryPoint("c1")
    \/ StartCache("c2")
    \/ \E c \in Calls : CompleteCache(c)

SpecCache == Init /\ [][NextCache]_vars

\* SpecText: the classifier and the assessor, as functions, applied to every text
\* of at most MaxFrags fragments, the assessor with every kind.
ChooseText(c) ==
    /\ Free(c)
    /\ \E t \in Texts : Begin(c, [NewCall("text", "-", t, FALSE) EXCEPT !.pc = "text"])

DetectQueryType(c) ==
    /\ call[c].pc = "text"
    /\ call' = [call EXCEPT ![c] =
                   [@ EXCEPT !.op = "detectQueryType",
                             !.pc = "done",
                             !.result.queryType = detectQueryType(Chars(call[c].sql))]]
    /\ UNCHANGED <<connections, sess>>

AssessDangerLevel(c) ==
    /\ call[c].pc = "text"
    /\ \E k \in QueryType :
          LET a == assessDangerLevel(Chars(call[c].sql), k)
          IN  call' = [call EXCEPT ![c] =
                          [@ EXCEPT !.op = "assessDangerLevel",
                                    !.pc = "done",
                                    !.queryType = k,
                                    !.result.level = a.level,
                                    !.result.warnings = a.warnings]]
    /\ UNCHANGED <<connections, sess>>

NextText ==
    \/ ChooseText("c1")
    \/ DetectQueryType("c1")
    \/ AssessDangerLevel("c1")
    \/ Return("c1")

SpecText == Init /\ [][NextText]_vars

(***************************************************************************)
(* Properties.                                                             *)
(***************************************************************************)
ReadOnly(n) == n \in Registered /\ connectionConfigs[n].mode = "readonly"

ReadWrite(n) == n \in Registered /\ connectionConfigs[n].mode = "readwrite"

\* The call c starts in this step.
Starts(c) == call[c].pc = "idle" /\ call'[c].pc # "idle"

ReadOnlyDenial ==
    [NoResult EXCEPT !.outcome = "fail", !.error = "Connection is read-only"]

\* C1: on a read-only profile, whatever the text and the cache, executeDml,
\* executePlsql and commit end in the step they start in (so no driver operation
\* is issued: no ping, connect, execute, commit, rollback or close), with the
\* failure 'Connection is read-only' and no warnings, no session acquired, and the
\* session cache and the sessions left as they were.
C1_ReadOnlyDenied ==
    [][\A c \in Calls :
          (/\ Starts(c)
           /\ call'[c].op \in {"executeDml", "executePlsql", "commit"}
           /\ ReadOnly(call'[c].name))
          => /\ call'[c].pc = "done"
             /\ call'[c].result = ReadOnlyDenial
             /\ call'[c].conn = 0
             /\ call'[c].nConnect = 0
             /\ UNCHANGED <<connections, sess>>]_vars

\* A text the create exception covers is denied on a read-only profile whose
\* session is cached.
C1_Witness ==
    \E c \in Calls :
        /\ call[c].op = "executePlsql"
        /\ call[c].name = "ro"
        /\ call[c].sql = <<"CREATE OR REPLACE ", "PROCEDURE p AS ", "DROP TABLE t">>
        /\ connections["ro"] # 0
        /\ call[c].result = ReadOnlyDenial

\* The statement is a CREATE OR REPLACE of a PROCEDURE, FUNCTION, PACKAGE, TRIGGER,
\* TYPE or VIEW: it starts with these words.
IsCreateOrReplace(chars) ==
    LET u == toUpperCase(trim(chars))
    IN  /\ MatchAt(u, 1, KW_CREATE)
        /\ \E j \in AfterSpaces(u, 1 + Len(KW_CREATE)) :
              /\ MatchAt(u, j, KW_OR)
              /\ \E k \in AfterSpaces(u, j + Len(KW_OR)) :
                    /\ MatchAt(u, k, KW_REPLACE)
                    /\ \E m \in AfterSpaces(u, k + Len(KW_REPLACE)) : ObjectAt(u, m)

isCreateOrReplaceOf == [t \in CallTexts \cup {NoText} |-> IsCreateOrReplace(Chars(t))]

Critical(t) == dangerOf[t].level = "critical"

\* The call has the caller's text, or the block or statement built from the
\* caller's arguments, in flight on its session.
Issued(cr) == cr.pc = "exec"

\* C2: on every path that takes a text (executeQuery, executeDml, executePlsql) and
\* every profile, a text assessed critical that is no CREATE OR REPLACE of a
\* routine, type or view is never issued to the database.
C2_CriticalNeverIssued ==
    \A c \in Calls :
        (/\ call[c].op \in {"executeQuery", "executeDml", "executePlsql"}
         /\ Critical(call[c].sql)
         /\ ~isCreateOrReplaceOf[call[c].sql])
        => ~Issued(call[c])

\* C3: executePlsql on a read-write profile, given a text assessed critical, goes
\* on to the database exactly when the text is a CREATE OR REPLACE of a PROCEDURE,
\* FUNCTION, PACKAGE, TRIGGER, TYPE or VIEW; otherwise it ends at once with
\* 'Dangerous operation blocked'.
C3_OnlyCreateOrReplacePermitted ==
    \A c \in Calls :
        (/\ call[c].op = "executePlsql"
         /\ ReadWrite(call[c].name)
         /\ Critical(call[c].sql))
        => IF isCreateOrReplaceOf[call[c].sql]
           THEN call[c].result.error # "Dangerous operation blocked"
           ELSE /\ call[c].pc = "done"
                /\ call[c].result.error = "Dangerous operation blocked"

\* C4: on a read-only profile the only statements issued for a caller are the
\* SELECTs of executeQuery and of the schema browsing.
C4_OnlySelectOnReadOnly ==
    \A c \in Calls :
        (ReadOnly(call[c].name) /\ Issued(call[c]))
        => call[c].op \in {"executeQuery", "browse"}

\* C5: on a read-only profile executeProcedure is not denied, its success and
\* failure outcomes carry the read-only advisory, and the session its block is
\* issued on is in a read-only transaction.
C5_ProcedureInReadOnlyTransaction ==
    \A c \in Calls :
        (call[c].op = "executeProcedure" /\ ReadOnly(call[c].name))
        => /\ call[c].result.error # "Connection is read-only"
           /\ call[c].result.outcome \in {"ok", "fail"}
                 => call[c].result.warnings = ReadOnlyAdvisory
           /\ (Issued(call[c]) /\ Usable(call[c].conn)) => sess[call[c].conn].roTx

\* C6: a session of a read-only profile enters the cache only in the step in
\* which SET TRANSACTION READ ONLY succeeds on it; when that statement fails no
\* session is cached under the name; a session of a read-write profile enters the
\* cache as it is opened, and SET TRANSACTION READ ONLY is issued for read-only
\* profiles only.
C6_CachedAfterReadOnlySet ==
    [][/\ \A n \in Registered :
            (connections'[n] # connections[n] /\ connections'[n] # 0)
            => \E c \in Calls :
                  /\ call[c].name = n
                  /\ IF ReadOnly(n)
                     THEN /\ call[c].pc = "setro"
                          /\ connections'[n] = call[c].conn
                          /\ ~sess[call[c].conn].roTx
                          /\ sess'[call[c].conn].roTx
                     ELSE /\ call[c].pc = "connecting"
                          /\ connections'[n] = Len(sess')
                          /\ sess' = Append(sess, NewSession(n))
       /\ \A c \in Calls :
            /\ (call[c].pc = "setro" /\ call'[c].pc # "setro" /\ ~sess'[call[c].conn].roTx)
               => /\ connections'[call[c].name] = 0
                  /\ call'[c].pc = "done"
                  /\ call'[c].result.outcome \in {"fail", "throw"}
            /\ call'[c].pc = "setro" => ReadOnly(call'[c].name)]_vars

\* The connect tool has returned the session of a read-only profile: it is the
\* cached one and its transaction is read-only.
C6_Witness ==
    \E c \in Calls :
        /\ call[c].op = "connect"
        /\ call[c].name = "ro"
        /\ call[c].result.outcome = "ok"
        /\ call[c].nConnect = 1
        /\ connections["ro"] = call[c].conn
        /\ sess[call[c].conn].roTx

\* At most one session per name is open, and an open session is the one cached
\* under its name, unless connect() is still setting it up.
BeingSetUp(s) == \E c \in Calls : call[c].pc = "setro" /\ call[c].conn = s

OpenSessions(n) == {s \in DOMAIN sess : sess[s].name = n /\ sess[s].open}

\* C7: however the calls interleave, at most one open session exists per name and
\* every open session is the one cached under its name.
C7_OneOpenSessionPerName ==
    \A n \in Registered :
        /\ Cardinality(OpenSessions(n)) <= 1
        /\ \A s \in OpenSessions(n) : BeingSetUp(s) \/ connections[n] = s

\* Call c has issued its statement on its session and its commit has not completed.
Uncommitted(c) ==
    /\ call[c].op = "executeDml"
    /\ call[c].phase = "main"
    /\ call[c].pc \in {"exec", "commit"}

\* Call d issues an execute, a commit or a rollback in this step.
Issues(d) ==
    /\ call'[d].pc \in {"exec", "commit", "rollback"}
    /\ call'[d].pc # call[d].pc

\* C8: between a call's execute and that call's commit or rollback no other call
\* issues an execute, a commit or a rollback on the same session.
C8_NoInterleavingOnSession ==
    [][\A c, d \in Calls :
          (c # d /\ Uncommitted(c) /\ Issues(d)) => call'[d].conn # call[c].conn]_vars

\* The profile is registered and its target and password resolve.
Connectable(n) ==
    n \in Registered /\ connectionConfigs[n].hasDsn /\ connectionConfigs[n].hasPassword

\* The entry points that are an acquisition and nothing before it:
\* connect(name) (the connect tool) and getConnection(name) (rollback).
AcquiresAtOnce(cr) == cr.op \in {"connect", "rollback"}

\* The call's acquisition has handed it the session s.
Holds(cr, s) ==
    /\ cr.conn = s
    /\ \/ cr.pc \in {"exec", "commit", "rollback"}
       \/ cr.op = "connect" /\ cr.pc = "done" /\ cr.result.outcome = "ok"

\* The steps of an acquisition by call c, for the names in the set names.
AcquireStep(c, names) ==
    LET cr == call[c]
        nx == call'[c]
        n  == nx.name
    IN  (nx.op \notin {"idle", "disconnect", "disconnectAll"}) =>
        /\ \* a cached session is probed, and nothing is connected meanwhile
           (Starts(c) /\ nx.pc # "done" /\ connections[n] # 0)
           => nx.pc \in {"ping", "ping2"} /\ nx.conn = connections[n] /\ nx.nConnect = 0
        /\ \* the probe answers: the cached session is handed over and the driver's
           \* connect is not invoked, or the entry is evicted and it is invoked once
           cr.pc \in {"ping", "ping2"}
           => \/ /\ UNCHANGED <<connections, sess>>
                 /\ Holds(nx, connections[n])
                 /\ nx.nConnect = cr.nConnect
              \/ /\ connections' = [connections EXCEPT ![n] = 0]
                 /\ n \in names => nx.pc = "connecting" /\ nx.nConnect = cr.nConnect + 1
        /\ \* no session is cached: the driver's connect is invoked once
           (Starts(c) /\ connections[n] = 0 /\ n \in names)
           => /\ nx.pc # "done" => nx.pc = "connecting" /\ nx.nConnect = 1
              /\ AcquiresAtOnce(nx) => nx.pc = "connecting"
        /\ \* the connect is not repeated (the catch block of executeDml acquires again)
           (cr.pc \in {"connecting", "setro"} /\ nx.pc = "connecting")
           => cr.op = "executeDml" /\ cr.phase = "main" /\ nx.phase = "rollback"
        /\ \* the session the driver opened is cached and handed over
           (cr.pc = "connecting" /\ Len(sess') > Len(sess))
           => IF ReadOnly(n) THEN nx.pc = "setro" /\ nx.conn = Len(sess')
              ELSE connections'[n] = Len(sess') /\ Holds(nx, Len(sess'))
        /\ (cr.pc = "setro" /\ sess'[cr.conn].roTx)
           => connections'[n] = cr.conn /\ Holds(nx, cr.conn)

\* C9: for getConnection(name) and connect(name), when one call at a time runs: a
\* cached session is probed; if the probe succeeds that session is handed over and
\* the driver's connect is not invoked; if the probe fails the entry is evicted;
\* with no session cached, or after the eviction, the driver's connect is invoked
\* exactly once provided the profile is registered and its target and password
\* resolve, and a session it opens is then cached and handed over.
C9_ProbeThenConnectOnce == [][\A c \in Calls : AcquireStep(c, {n \in ConnNames : Connectable(n)})]_vars

\* A call was handed the second session of the read-write profile after one connect
\* of its own: the first session, never closed, had been evicted (by a probe or a
\* close that failed).
C9_Witness ==
    \E c \in Calls :
        /\ call[c].name = "rw"
        /\ call[c].nConnect = 1
        /\ Len(sess) = 2
        /\ sess[1].name = "rw" /\ sess[1].open
        /\ sess[2].name = "rw"
        /\ connections["rw"] = 2
        /\ Holds(call[c], 2)

\* C9 as stated, for every name: with no session cached or a failed probe the
\* driver's connect is invoked exactly once.
C9_ConnectOnceForEveryName == [][\A c \in Calls : AcquireStep(c, ConnNames)]_vars

\* C10: within one call of an entry point the driver's connect is attempted at most
\* once, the failure path of executeDml included.
C10_ConnectAtMostOnce ==
    \A c \in Calls :
        call[c].op \in {"executeQuery", "executeDml", "executePlsql",
                        "executeProcedure", "commit", "rollback"}
        => call[c].nConnect <= 1

\* Call c awaits a driver operation in this state, and in this step the operation
\* completes without an error.
Completes(c) ==
    /\ call[c].pc \notin {"idle", "done"}
    /\ call'[c] # call[c]
    /\ call'[c].err = call[c].err

\* C11: executeDml executes with auto-commit off, so what the statement wrote is
\* pending when the execute has succeeded; it then issues one commit if the commit
\* flag is true and ends without a commit or a rollback if the flag is false; the
\* message is 'Changes committed.' exactly when the call's commit has succeeded.
C11_CommitAsFlagged ==
    [][\A c \in Calls :
          LET cr == call[c]
              nx == call'[c]
          IN  (cr.op = "executeDml" /\ cr.phase = "main")
              => /\ (cr.pc = "exec" /\ Completes(c))
                    => /\ queryTypeOf[cr.sql] \in {"insert", "update", "delete"}
                             => sess'[cr.conn].pending
                       /\ IF cr.commit
                          THEN nx.pc = "commit" /\ nx.conn = cr.conn
                          ELSE /\ nx.pc = "done"
                               /\ nx.result.outcome = "ok"
                               /\ nx.result.commitMsg = "Changes NOT committed"
                 /\ cr.pc = "commit" => nx.pc \notin {"commit", "exec"}
                 /\ (cr.pc = "commit" /\ Completes(c))
                    => /\ sess' = EndTransaction(cr.conn)
                       /\ nx.pc = "done"
                       /\ nx.result.outcome = "ok"
                       /\ nx.result.commitMsg = "Changes committed."
                 /\ (nx.pc = "done" /\ nx.result.commitMsg = "Changes committed.")
                    => cr.pc = "commit" /\ Completes(c)]_vars

\* An INSERT was executed with the commit flag false: it is reported as not
\* committed and is pending on the session.
C11_Witness ==
    \E c \in Calls :
        /\ call[c].op = "executeDml"
        /\ call[c].sql = <<"INSERT INTO t">>
        /\ ~call[c].commit
        /\ call[c].result.outcome = "ok"
        /\ call[c].result.commitMsg = "Changes NOT committed"
        /\ sess[call[c].conn].pending

ConfigurationErrors == {"not found", "no target", "no password"}

PolicyDenials == {"Connection is read-only", "Dangerous operation blocked", "Invalid query type"}

\* C12: when the acquisition, the execute or the commit of executeDml fails, the
\* catch block acquires the session of the name and, if it gets one, issues one
\* rollback on it; whatever fails from then on changes nothing of the outcome, which
\* is a failure whose error is the first failure's message.
C12_RollbackKeepsOriginalError ==
    [][\A c \in Calls :
          LET cr == call[c]
              nx == call'[c]
              n  == nx.name
          IN  (nx.op = "executeDml" /\ n \in Registered)
              => /\ \* a failure in the try block enters the catch block with its message
                    (cr.phase = "main" /\ nx.err # cr.err)
                    => /\ nx.phase = "rollback"
                       /\ nx.err = IF cr.pc = "idle" THEN "no password"
                                   ELSE driverMessage(cr.pc)
                       /\ cr.pc \in {"idle", "connecting", "exec", "commit"}
                 /\ \* the catch block: acquire, one rollback, the outcome
                    cr.phase = "rollback"
                    => /\ nx.phase = "rollback"
                       /\ nx.err = cr.err
                       /\ nx.pc \in {"connecting", "rollback", "done"}
                       /\ cr.pc = "rollback" => nx.pc = "done"
                       /\ (cr.pc = "ping" /\ connections' = connections)
                          => nx.pc = "rollback" /\ nx.conn = connections[n]
                       /\ (cr.pc = "connecting" /\ Len(sess') > Len(sess))
                          => nx.pc = "rollback" /\ nx.conn = Len(sess')
                 /\ \* no failure outcome of the try block without the catch block
                    (nx.pc = "done" /\ nx.result.error \notin PolicyDenials)
                    => \/ nx.result.outcome = "ok"
                       \/ /\ nx.phase = "rollback"
                          /\ nx.result.outcome = "fail"
                          /\ nx.result.error = nx.err
                          /\ nx.result.warnings = dangerOf[nx.sql].warnings]_vars

\* The commit of an executeDml failed and the rollback of its catch block ended the
\* transaction: nothing is pending, and the error reported is the commit's.
C12_Witness ==
    \E c \in Calls :
        /\ call[c].op = "executeDml"
        /\ call[c].sql = <<"INSERT INTO t">>
        /\ call[c].phase = "rollback"
        /\ call[c].result.outcome = "fail"
        /\ call[c].result.error = "commit failed"
        /\ Len(sess) = 1
        /\ Usable(call[c].conn)
        /\ ~sess[call[c].conn].pending

\* C13: when the execute or the commit of executeDml or of executePlsql fails, the
\* last operation on the session before the failure outcome is returned is a
\* rollback.
C13_RollbackOnWritePathFailure ==
    [][\A c \in Calls :
          LET cr == call[c]
              nx == call'[c]
          IN  (/\ nx.op \in {"executeDml", "executePlsql"}
               /\ cr.pc # "done" /\ nx.pc = "done"
               /\ nx.result.outcome = "fail"
               /\ nx.result.error \in {"execute failed", "commit failed"}
               /\ nx.conn # 0)
              => cr.pc = "rollback"]_vars

GuardedEntryPoints == {"executeQuery", "executeDml", "executePlsql", "executeProcedure",
                       "commit", "rollback"}

\* The driver operations whose failure ends the try block of the entry point that
\* awaits them: pc names the operation, phase the block.
EndsTheCall(cr) ==
    /\ cr.pc \in {"connecting", "setro", "exec", "commit", "rollback", "status", "errors"}
    /\ cr.phase = "main"

\* C14: executeQuery, executeDml, executePlsql, executeProcedure, commit and rollback
\* on a registered name never throw; when a connect, a SET TRANSACTION, an execute,
\* a commit or the rollback entry point's rollback fails, its message becomes the
\* call's error, the call runs no further than executeDml's catch block, and its
\* outcome is the failure carrying that message; a success outcome is returned only
\* by a call with no such error.
C14_FailureOutcomeNeverThrown ==
    [][\A c \in Calls :
          LET cr == call[c]
              nx == call'[c]
          IN  (nx.op \in GuardedEntryPoints /\ nx.name \in Registered)
              => /\ nx.result.outcome # "throw"
                 /\ (nx.err # cr.err /\ cr.pc # "idle")
                    => /\ EndsTheCall(cr)
                       /\ nx.err = driverMessage(cr.pc)
                 /\ (cr.err # "none" /\ cr.pc # "done")
                    => /\ nx.err = cr.err
                       /\ cr.op = "executeDml" /\ cr.phase = "rollback"
                 /\ (nx.err # "none" /\ nx.pc # "done")
                    => nx.op = "executeDml" /\ nx.phase = "rollback"
                 /\ (nx.pc = "done" /\ nx.err # "none")
                    => /\ nx.result.outcome = "fail"
                       /\ nx.result.error = nx.err
                 /\ (nx.pc = "done" /\ nx.result.outcome = "ok") => nx.err = "none"]_vars

\* The commit entry point's commit failed on a session it had acquired, and the
\* outcome is the failure with the commit's message.
C14_Witness ==
    \E c \in Calls :
        /\ call[c].op = "commit"
        /\ call[c].name = "rw"
        /\ Usable(call[c].conn)
        /\ call[c].pc = "done"
        /\ call[c].result.outcome = "fail"
        /\ call[c].result.error = "commit failed"

\* C14 as stated, for the probe: a probe that fails (the entry is evicted) makes
\* the probe's message the error of the call, which then ends in failure.
C14_ProbeFailureFailsTheCall ==
    [][\A c \in Calls :
          LET cr == call[c]
              nx == call'[c]
          IN  (/\ cr.op \in GuardedEntryPoints
               /\ cr.name \in Registered
               /\ cr.pc = "ping"
               /\ connections'[cr.name] = 0)
              => /\ nx.err = driverMessage("ping")
                 /\ nx.pc = "done" => nx.result.outcome = "fail"]_vars


\* C15: an outcome that is a policy denial or a configuration error is produced in
\* the step the call starts in, so before any driver operation of the call, with no
\* session acquired, the cache and the sessions as they were, and by a single
\* attempt: the acquisition has not been run a second time by a catch block (which
\* leaves the call in phase "rollback").
C15_DeniedBeforeAnyDriverOperationOnce ==
    [][\A c \in Calls :
          LET cr == call[c]
              nx == call'[c]
          IN  (/\ cr.pc # "done" /\ nx.pc = "done"
               /\ nx.result.error \in PolicyDenials \cup ConfigurationErrors)
              => /\ cr.pc = "idle"
                 /\ nx.conn = 0
                 /\ nx.nConnect = 0
                 /\ UNCHANGED <<connections, sess>>
                 /\ nx.phase = "main"]_vars


InvalidQueryType == [NoResult EXCEPT !.outcome = "fail", !.error = "Invalid query type"]

\* C16: executeQuery, given a text whose kind is not SELECT, ends in the step it
\* starts in (no driver operation is issued) with the failure 'Invalid query type',
\* whatever the name and the cache, with no session acquired and the cache and the
\* sessions as they were; an executeQuery that awaits a driver operation has a text
\* of kind SELECT.
C16_OnlySelectThroughExecuteQuery ==
    [][\A c \in Calls :
          LET nx == call'[c]
          IN  nx.op = "executeQuery"
              => /\ (Starts(c) /\ queryTypeOf[nx.sql] # "select")
                    => /\ nx.pc = "done"
                       /\ nx.result = InvalidQueryType
                       /\ nx.conn = 0
                       /\ nx.nConnect = 0
                       /\ UNCHANGED <<connections, sess>>
                 /\ nx.pc # "done" => queryTypeOf[nx.sql] = "select"]_vars

\* A DROP given to executeQuery is rejected while the session of the name is cached.
C16_Witness ==
    \E c \in Calls :
        /\ call[c].op = "executeQuery"
        /\ call[c].name = "rw"
        /\ call[c].sql = <<"DROP TABLE t">>
        /\ connections["rw"] # 0
        /\ call[c].result = InvalidQueryType


\* C17: in executeQuery, with c the maxRows argument, or the configured default
\* when the argument is absent or 0, the execute asks for c + 1 rows; for the n rows
\* the driver returns, the outcome is a success with rowCount the smaller of n and
\* c, and with the warning 'Results limited' exactly when n > c (so not when n = 0).
C17_RowsLimitedToCap ==
    [][\A c \in Calls :
          LET cr == call[c]
              nx == call'[c]
              cap == IF cr.maxRows = 0 THEN defaultMaxRows ELSE cr.maxRows
              n == nx.rows
          IN  (cr.op = "executeQuery" /\ cr.pc = "exec")
              => /\ requestedRows(cr.maxRows) = cap + 1
                 /\ Completes(c)
                    => /\ nx.pc = "done"
                       /\ nx.result.outcome = "ok"
                       /\ n <= cap + 1
                       /\ nx.result.rowCount = IF n < cap THEN n ELSE cap
                       /\ nx.result.warnings = IF n > cap THEN ResultsLimited ELSE <<>>]_vars

\* No cap was given and the driver returned one row more than the default cap: the
\* outcome has as many rows as the default cap, and the warning.
C17_Witness ==
    \E c \in Calls :
        /\ call[c].op = "executeQuery"
        /\ call[c].maxRows = 0
        /\ call[c].rows = defaultMaxRows + 1
        /\ call[c].result.outcome = "ok"
        /\ call[c].result.rowCount = defaultMaxRows
        /\ call[c].result.warnings = ResultsLimited


\* C18: in executePlsql, once the status looked up for the object the text creates
\* is not VALID (the call goes on to look up the diagnostics), the call returns a
\* failure; a success is returned only for a text that creates no such object or
\* straight after the status lookup (status VALID).
C18_NotValidIsFailure ==
    [][\A c \in Calls :
          LET cr == call[c]
              nx == call'[c]
          IN  (cr.op = "executePlsql" /\ cr.pc # "done" /\ nx.pc = "done")
              => /\ cr.pc = "errors" => nx.result.outcome = "fail"
                 /\ nx.result.outcome = "ok"
                    => ~createMatchOf[cr.sql] \/ cr.pc = "status"]_vars


\* C19: disconnect(name) with no session cached for the name returns false in the
\* step it starts in, with no driver operation and nothing changed; with a session
\* cached it calls close on that session, and when the close completes, with or
\* without an error, it returns true, the entry of the name is gone and the entries
\* of the other names are as they were; it never fails or throws.
C19_DisconnectReleasesEntry ==
    [][\A c \in Calls :
          LET cr == call[c]
              nx == call'[c]
          IN  nx.op = "disconnect"
              => /\ Starts(c)
                    => /\ UNCHANGED connections
                       /\ IF connections[nx.name] = 0
                          THEN /\ nx.pc = "done"
                               /\ nx.result.value = "false"
                               /\ nx.conn = 0
                               /\ UNCHANGED sess
                          ELSE /\ nx.pc = "close"
                               /\ nx.conn = connections[nx.name]
                 /\ (cr.pc = "close" /\ nx # cr)
                    => /\ nx.pc = "done"
                       /\ nx.result.value = "true"
                       /\ connections' = [connections EXCEPT ![cr.name] = 0]
                 /\ nx.pc = "done"
                    => /\ nx.result.outcome = "ok"
                       /\ nx.err = "none"
                       /\ nx.result.value = "true" <=> nx.conn # 0]_vars

\* The close of a disconnect failed (the session is still open): true is returned,
\* the entry is gone, and the entry of another name is still there.
C19_Witness ==
    \E c \in Calls :
        /\ call[c].op = "disconnect"
        /\ call[c].name = "rw"
        /\ call[c].result.value = "true"
        /\ Usable(call[c].conn)
        /\ connections["rw"] = 0
        /\ connections["ro"] # 0


Cached(conns) == {n \in DOMAIN conns : conns[n] # 0}

Range(q) == {q[i] : i \in DOMAIN q}

\* C20: disconnectAll, with nothing else running, on an empty cache returns 0 in the
\* step it starts in; otherwise it calls close on the session of one cached name
\* after the other: while it runs, the names it has still to release are those
\* cached; each close that completes, with or without an error, removes the entry
\* of its name and adds one to the count (so the number cached, which bounds the
\* steps left, goes down by one and count plus that number stays what was cached at
\* the start); it ends when no entry is left, and returns the count.
C20_DisconnectAllReleasesAll ==
    [][\A c \in Calls :
          LET cr == call[c]
              nx == call'[c]
          IN  nx.op = "disconnectAll"
              => /\ Starts(c)
                    => /\ UNCHANGED connections
                       /\ nx.count = 0
                       /\ Cached(connections) = {} => nx.pc = "done" /\ UNCHANGED sess
                 /\ nx.pc \in {"close", "done"}
                 /\ nx.pc = "close"
                    => /\ Cached(connections') = {nx.name} \cup Range(nx.keys)
                       /\ nx.conn = connections'[nx.name]
                       /\ nx.name \notin Range(nx.keys)
                 /\ cr.pc = "close"
                    => /\ connections' = [connections EXCEPT ![cr.name] = 0]
                       /\ nx.count = cr.count + 1
                       /\ Cardinality(Cached(connections')) =
                              Cardinality(Cached(connections)) - 1
                 /\ nx.pc = "done"
                    => /\ Cached(connections') = {}
                       /\ nx.result.outcome = "ok"
                       /\ nx.err = "none"
                       /\ nx.result.count = nx.count]_vars

\* disconnectAll has released two sessions, the first of which failed to close (it is
\* still open): the count returned is 2 and the cache is empty.
C20_Witness ==
    \E c \in Calls :
        /\ call[c].op = "disconnectAll"
        /\ call[c].pc = "done"
        /\ call[c].result.count = 2
        /\ Len(sess) = 2
        /\ sess[1].open /\ ~sess[2].open
        /\ Cached(connections) = {}


\* The name call c operates on in this step, in which it starts or goes on.
SteppingName(c) == IF Starts(c) THEN call'[c].name ELSE call[c].name

\* C21: a step of a call on one name (of connect, disconnect or an executor entry
\* point, with getConnection and isConnected inside them), whatever the other call
\* is suspended at, leaves the cache entry of every other name as it was.  (The
\* profiles are never written: connectionConfigs is not a variable.)
C21_OtherNamesUntouched ==
    [][\A c \in Calls :
          (call'[c] # call[c] /\ call[c].op # "disconnectAll" /\ call'[c].op # "disconnectAll")
          => \A b \in ConnNames \ {SteppingName(c)} : connections'[b] = connections[b]]_vars

\* An executeDml on the read-write profile is suspended at its execute, on the
\* session cached for that profile, while a disconnect of the read-only profile has
\* released that profile's session.
C21_Witness ==
    /\ call["c1"].op = "executeDml" /\ call["c1"].name = "rw" /\ call["c1"].pc = "exec"
    /\ connections["rw"] = call["c1"].conn
    /\ call["c2"].op = "disconnect" /\ call["c2"].name = "ro"
    /\ call["c2"].result.value = "true"
    /\ connections["ro"] = 0


\* The first rule of a list of <<condition, answer>> rules whose condition holds.
FirstRule(rules) ==
    rules[CHOOSE i \in 1..Len(rules) :
              rules[i][1] /\ \A j \in 1..(i - 1) : ~rules[j][1]][2]

\* C22: detectQueryType answers, for every text, with one of the seven kinds: that
\* of the first rule that matches the trimmed, upper-cased text, in the order
\* starts with SELECT; INSERT; UPDATE; DELETE; starts with CREATE, ALTER, DROP,
\* TRUNCATE, GRANT or REVOKE (DDL); starts with BEGIN or DECLARE, or contains
\* 'CREATE OR REPLACE' (PLSQL); otherwise OTHER.
C22_FirstMatchingRule ==
    \A c \in Calls :
        (call[c].op = "detectQueryType" /\ call[c].pc = "done")
        => LET u == toUpperCase(trim(Chars(call[c].sql)))
               kind == call[c].result.queryType
           IN  /\ kind \in QueryType
               /\ kind = FirstRule(<<
                     <<startsWith(u, KW_SELECT), "select">>,
                     <<startsWith(u, KW_INSERT), "insert">>,
                     <<startsWith(u, KW_UPDATE), "update">>,
                     <<startsWith(u, KW_DELETE), "delete">>,
                     <<\E kw \in {KW_CREATE, KW_ALTER, KW_DROP, KW_TRUNCATE, KW_GRANT,
                                  KW_REVOKE} : startsWith(u, kw), "ddl">>,
                     <<\/ startsWith(u, KW_BEGIN)
                       \/ startsWith(u, KW_DECLARE)
                       \/ includes(u, KW_CREATE_OR_REPLACE), "plsql">>,
                     <<TRUE, "other">> >>)
               /\ startsWith(u, KW_SELECT) => kind = "select"

\* A text that starts, after white space and in lower case, with SELECT, and goes on
\* with a DROP, is classified SELECT.
C22_Witness ==
    \E c \in Calls :
        /\ call[c].op = "detectQueryType"
        /\ call[c].sql = <<" select 2", "DROP TABLE t">>
        /\ call[c].result.queryType = "select"


Routines == {KW_PROCEDURE, KW_FUNCTION, KW_PACKAGE, KW_TRIGGER}

\* The text has a CREATE OR REPLACE of a routine in it.
CreatesOrReplacesRoutine(u) ==
    \E i \in 1..Len(u) :
        /\ MatchAt(u, i, KW_CREATE_OR_REPLACE)
        /\ \E m \in AfterSpaces(u, i + Len(KW_CREATE_OR_REPLACE)) :
              \E kw \in Routines : MatchAt(u, m, kw)

\* C23: every text with a CREATE OR REPLACE of a routine in it, one that starts with
\* it in particular, is classified PLSQL by detectQueryType.
C23_CreateOrReplaceIsPlsql ==
    \A c \in Calls :
        (/\ call[c].op = "detectQueryType" /\ call[c].pc = "done"
         /\ CreatesOrReplacesRoutine(toUpperCase(Chars(call[c].sql))))
        => call[c].result.queryType = "plsql"


\* One of the patterns that make a text critical is in the text.
CriticalPattern(sql) ==
    \/ DANGEROUS_PATTERNS_drop(sql)
    \/ DANGEROUS_PATTERNS_truncate(sql)
    \/ DANGEROUS_PATTERNS_alterSystem(sql)

\* C24: assessDangerLevel answers, for every text and kind, with the level of the
\* first rule that applies, in the order: kind SELECT, safe; a DROP of an object, a
\* TRUNCATE TABLE or an ALTER SYSTEM in the text, critical; DELETE without WHERE,
\* high; UPDATE without WHERE, high; kind DDL, high; INSERT, UPDATE or DELETE,
\* moderate; otherwise safe; with one warning when critical or high, else none.
C24_FirstApplicableRule ==
    \A c \in Calls :
        (call[c].op = "assessDangerLevel" /\ call[c].pc = "done")
        => LET sql == Chars(call[c].sql)
               kind == call[c].queryType
               where == includes(toUpperCase(sql), KW_WHERE)
               level == call[c].result.level
           IN  /\ level = FirstRule(<<
                     <<kind = "select", "safe">>,
                     <<CriticalPattern(sql), "critical">>,
                     <<kind = "delete" /\ ~where, "high">>,
                     <<kind = "update" /\ ~where, "high">>,
                     <<kind = "ddl", "high">>,
                     <<kind \in {"insert", "update", "delete"}, "moderate">>,
                     <<TRUE, "safe">> >>)
               /\ Len(call[c].result.warnings) =
                      IF level \in {"critical", "high"} THEN 1 ELSE 0

\* A DROP TABLE of kind DDL is critical, not high as the DDL rule alone would make
\* it; it has one warning.
C24_Witness ==
    \E c \in Calls :
        /\ call[c].op = "assessDangerLevel"
        /\ call[c].sql = <<"DROP TABLE t">>
        /\ call[c].queryType = "ddl"
        /\ call[c].result.level = "critical"
        /\ Len(call[c].result.warnings) = 1

\* C25: for a text of kind DELETE or UPDATE with none of the critical patterns in
\* it, assessDangerLevel answers high, with the kind's 'without WHERE clause'
\* warning, exactly when the upper-cased text does not contain WHERE anywhere, and
\* moderate with no warnings otherwise.
C25_HighWithoutWhere ==
    \A c \in Calls :
        (/\ call[c].op = "assessDangerLevel" /\ call[c].pc = "done"
         /\ call[c].queryType \in {"delete", "update"}
         /\ ~CriticalPattern(Chars(call[c].sql)))
        => LET r == call[c].result
           IN  IF includes(toUpperCase(Chars(call[c].sql)), KW_WHERE)
               THEN r.level = "moderate" /\ r.warnings = <<>>
               ELSE /\ r.level = "high"
                    /\ r.warnings = IF call[c].queryType = "delete"
                                    THEN <<"DELETE without WHERE clause">>
                                    ELSE <<"UPDATE without WHERE clause">>

\* A DELETE whose only WHERE is the end of an identifier is moderate.
C25_Witness ==
    \E c \in Calls :
        /\ call[c].op = "assessDangerLevel"
        /\ call[c].sql = <<"DELETE FROM t", "nowhere">>
        /\ call[c].queryType = "delete"
        /\ call[c].result.level = "moderate"
        /\ call[c].result.warnings = <<>>


\* The gate of an entry point, for a call and a cache.
Gate(cr, conns) ==
    CASE cr.op = "executeDml" -> executeDml(cr, conns)
      [] cr.op = "executePlsql" -> executePlsql(cr, conns)
      [] cr.op = "commit" -> commit(cr, conns)

\* What the gate decided: the denial it returned, or that the call was let through.
Decision(r) ==
    IF r.pc = "done" /\ r.result.error \in PolicyDenials THEN r.result
    ELSE [NoResult EXCEPT !.outcome = "allowed"]

C27_NoCommitOnReadOnly ==
    \A c \in Calls : call[c].pc = "commit" => ~ReadOnly(call[c].name)


\* close has been called on session s: a close is awaited on it, or has closed it.
CloseCalled(s) == sess[s].closing \/ ~sess[s].open

\* C28: however disconnect interleaves with the calls in flight, no call issues a
\* ping, an execute, a commit or a rollback on a session on which close has been
\* called.
C28_NothingIssuedAfterClose ==
    [][\A d \in Calls :
          (/\ call'[d].pc \in {"ping", "ping2", "exec", "commit", "rollback"}
           /\ call'[d].pc # call[d].pc
           /\ call'[d].conn \in DOMAIN sess)
          => ~CloseCalled(call'[d].conn)]_vars


\* Call c awaits a commit, or the rollback of the rollback entry point, and in this
\* step it completes without an error.
EndsTransaction(c) ==
    /\ \/ call[c].pc = "commit"
       \/ call[c].pc = "rollback" /\ call[c].op = "rollback"
    /\ Completes(c)

C30_FailedConnectLeavesNothing ==
    \A c \in Calls :
        (/\ call[c].op = "connect"
         /\ call[c].pc = "done"
         /\ call[c].result.outcome # "ok")
        => /\ connections[call[c].name] = 0
           /\ call[c].conn # 0 => ~sess[call[c].conn].open


=============================================================================
